---- MODULE Spec2Model ----
(***************************************************************************)
(* Model of the adm crate: the binary min-heap (Heap<T>), the heap sorter, *)
(* the disjoint-set forest (UnionFind) and the weighted graph with Prim's, *)
(* Kruskal's and Dijkstra's algorithms.                                    *)
(*                                                                         *)
(* Conventions.  A Rust Vec<T> is a TLA+ sequence; Rust index i is TLA+    *)
(* index i+1 (see At/Put).  An Option<T> is a sequence of length at most   *)
(* one: None is <<>>, Some(v) is <<v>>.  An adjacency chain                *)
(* Option<Box<WeightedEdge>> is the sequence of its records, head first:   *)
(* the empty chain <<>> is None.                                           *)
(***************************************************************************)
EXTENDS Integers, Sequences, FiniteSets, TLC

VARIABLES
    heap,       \* Heap<i32>.0, the backing array (also HeapSorter::sort's local h)
    hret,       \* what the last Heap call returned: <<"new">>, <<"insert">>, <<"pop", Option>>, <<"peek", Option>>
    held,       \* history: held[v] is how often v was inserted minus how often pop returned v
    vec,        \* HeapSorter.0
    out,        \* HeapSorter::sort's local v
    spc,        \* position inside HeapSorter::sort: "idle", "fill", "drain", "done"
    sin,        \* the vector HeapSorter::sort was called on
    parent,     \* UnionFind.parent
    size,       \* UnionFind.size
    nsets,      \* UnionFind.nsets (two's-complement reading of the usize once it has wrapped)
    ufret,      \* what the last UnionFind call did: <<"new">>, <<"union", x, y>>, <<"panic", x, y>>
    joined,     \* history: joined[x+1] is the least element that the union calls made so far connect to x
    ncalls,     \* history: how many union calls were made
    edges,      \* WeightedGraph.edges
    degrees,    \* WeightedGraph.degrees
    nedges,     \* WeightedGraph.nedges
    nvert,      \* WeightedGraph.nvert
    directed,   \* WeightedGraph.directed
    gret        \* what the last graph call returned

vars == <<heap, hret, held, vec, out, spc, sin, parent, size, nsets, ufret, joined, ncalls,
          edges, degrees, nedges, nvert, directed, gret>>
heapVars == <<heap, hret, held>>
sortVars == <<vec, out, spc, sin>>
ufVars == <<parent, size, nsets, ufret, joined, ncalls>>
graphVars == <<edges, degrees, nedges, nvert, directed, gret>>

\* ------------------------------------------------------------------ bounds
MaxVal == 3         \* heap elements are 1..MaxVal
MaxHeapLen == 6     \* Heap::insert is not called on a heap of this length
MaxSortLen == 6     \* HeapSorter::sort is run on vectors of at most this length
UFSize == 4         \* UnionFind::new(UFSize)
MaxUnions == 5      \* at most this many union calls
NVert == 3          \* WeightedGraph::new(NVert, _)
MaxEdges == 3       \* at most this many successful insert_edge calls
MaxWeight == 3      \* edge weights are 1 and MaxWeight
MaxKWeight == 3     \* edge weights of the Topology graphs are 1..MaxKWeight
MaxNegEdges == 2    \* at most this many insert_edge calls on the graphs with weights <= 0

Values == 1..MaxVal

\* ----------------------------------------------------------------- helpers
None == <<>>
Some(v) == <<v>>
At(a, i) == a[i + 1]
Put(a, i, v) == [a EXCEPT ![i + 1] = v]

RECURSIVE SeqsUpTo(_, _)
SeqsUpTo(S, n) ==
    IF n = 0 THEN {<<>>}
    ELSE LET shorter == SeqsUpTo(S, n - 1)
         IN  shorter \cup {Append(s, x) : s \in {t \in shorter : Len(t) = n - 1}, x \in S}

\* ------------------------------------------------------------- Heap<i32>
\* Heap::parent: None is rendered as -1
heap_parent(idx) == IF idx = 0 THEN -1 ELSE (idx - 1) \div 2

\* Heap::child: None is rendered as -1
heap_child(a, idx) == IF idx * 2 + 1 >= Len(a) THEN -1 ELSE idx * 2 + 1

\* Heap::bubble: walks to the root, swapping wherever parent > current
RECURSIVE bubble(_, _)
bubble(a, cur_idx) ==
    LET parent_idx == heap_parent(cur_idx)
    IN  IF parent_idx = -1 THEN a
        ELSE IF At(a, parent_idx) > At(a, cur_idx)
             THEN bubble(Put(Put(a, parent_idx, At(a, cur_idx)), cur_idx, At(a, parent_idx)),
                         parent_idx)
             ELSE bubble(a, parent_idx)

\* the while loop of Heap::heapify: the array and cur_idx when the loop is left
RECURSIVE heapify_loop(_, _)
heapify_loop(a, cur_idx) ==
    LET child_idx == heap_child(a, cur_idx)
    IN  IF child_idx = -1 THEN [a |-> a, cur_idx |-> cur_idx]
        ELSE IF child_idx = Len(a) - 1
             THEN [a |-> Put(a, cur_idx, At(a, child_idx)), cur_idx |-> cur_idx]
        ELSE IF At(a, child_idx) <= At(a, child_idx + 1)
             THEN heapify_loop(Put(a, cur_idx, At(a, child_idx)), child_idx)
             ELSE heapify_loop(Put(a, cur_idx, At(a, child_idx + 1)), child_idx + 1)

\* heapify without the write of the last element into the final hole
heapify_nowrite(a) ==
    LET l == heapify_loop(a, 0)
    IN  SubSeq(l.a, 1, Len(l.a) - 1)

\* Heap::heapify (called on a non-empty heap only)
heapify(a) ==
    LET l == heapify_loop(a, 0)
        b == Put(l.a, l.cur_idx, At(l.a, Len(l.a) - 1))
    IN  SubSeq(b, 1, Len(b) - 1)

\* Heap::insert
heap_insert(a, value) == bubble(Append(a, value), Len(a))

\* pop that hands out a default value where the heap is empty
heap_pop_default(a) ==
    IF Len(a) = 0 THEN [a |-> a, ret |-> Some(0)]
    ELSE [a |-> heapify(a), ret |-> Some(At(a, 0))]

\* Heap::pop: the heap afterwards, and the value returned
heap_pop(a) ==
    IF Len(a) = 0 THEN [a |-> a, ret |-> None]
    ELSE [a |-> heapify(a), ret |-> Some(At(a, 0))]

\* Heap::peek
heap_peek(a) == IF Len(a) = 0 THEN None ELSE Some(At(a, 0))

\* Heap::len
heap_len(a) == Len(a)

\* Heap::is_empty
heap_is_empty(a) == Len(a) = 0

\* actions on the heap
Insert(v) ==
    /\ Len(heap) < MaxHeapLen
    /\ heap' = heap_insert(heap, v)
    /\ hret' = <<"insert", None>>
    /\ held' = [held EXCEPT ![v] = @ + 1]
    /\ UNCHANGED <<sortVars, ufVars, graphVars>>

Pop ==
    /\ heap' = heap_pop(heap).a
    /\ hret' = <<"pop", heap_pop(heap).ret>>
    /\ held' = IF heap_pop(heap).ret = None THEN held
               ELSE [held EXCEPT ![heap_pop(heap).ret[1]] = @ - 1]
    /\ UNCHANGED <<sortVars, ufVars, graphVars>>

Peek ==
    /\ hret' = <<"peek", heap_peek(heap)>>
    /\ UNCHANGED <<heap, held, sortVars, ufVars, graphVars>>

\* ------------------------------------------------------------ HeapSorter
\* HeapSorter::sort, entry: let mut h = Heap::new(); let mut v = Vec::new();
SortBegin ==
    /\ spc = "idle"
    /\ spc' = "fill"
    /\ heap' = <<>>
    /\ held' = [v \in Values |-> 0]
    /\ out' = <<>>
    /\ UNCHANGED <<hret, vec, sin, ufVars, graphVars>>

\* one turn of: while let Some(elem) = self.0.pop() { h.insert(elem); }
SortFill ==
    /\ spc = "fill"
    /\ IF Len(vec) > 0
       THEN /\ heap' = heap_insert(heap, vec[Len(vec)])
            /\ held' = [held EXCEPT ![vec[Len(vec)]] = @ + 1]
            /\ vec' = SubSeq(vec, 1, Len(vec) - 1)
            /\ spc' = "fill"
       ELSE /\ spc' = "drain"
            /\ UNCHANGED <<heap, held, vec>>
    /\ UNCHANGED <<hret, out, sin, ufVars, graphVars>>

\* one turn of: while let Some(elem) = h.pop() { v.push(elem); }  and, once pop
\* returns None, self.0 = v
SortDrain ==
    /\ spc = "drain"
    /\ LET r == heap_pop(heap)
       IN  IF r.ret # None
           THEN /\ heap' = r.a
                /\ held' = [held EXCEPT ![r.ret[1]] = @ - 1]
                /\ out' = Append(out, r.ret[1])
                /\ UNCHANGED <<vec, spc>>
           ELSE /\ vec' = out
                /\ spc' = "done"
                /\ UNCHANGED <<heap, held, out>>
    /\ UNCHANGED <<hret, sin, ufVars, graphVars>>

\* ------------------------------------------------------------- UnionFind
\* UnionFind::new
uf_new(n) == [parent |-> [i \in 1..n |-> i - 1], size |-> [i \in 1..n |-> 1], nsets |-> n]

\* the loop of UnionFind::find, given `fuel` turns: the root it stops at, or -1
\* when it is still walking after `fuel` turns
RECURSIVE find_walk(_, _, _)
find_walk(p, mover_idx, fuel) ==
    IF mover_idx = At(p, mover_idx) THEN mover_idx
    ELSE IF fuel = 0 THEN -1
    ELSE find_walk(p, At(p, mover_idx), fuel - 1)

\* find with an `if` in place of its `while`: one link only
find_once(p, idx) == At(p, idx)

\* UnionFind::find on an in-range idx.  A walk of more than Len(p) links has
\* entered a cycle, where the loop never ends: that outcome is -1
find(p, idx) == find_walk(p, idx, Len(p))

\* UnionFind::size on an in-range idx
uf_size(p, sz, idx) == At(sz, find(p, idx))

\* nsets -= 1 on a usize: below zero a build with overflow checks panics, a build
\* without them wraps (2^64 - 1 is kept as its two's-complement reading, -1)
nsets_dec(n, checks) == [n |-> IF n = 0 /\ checks THEN n ELSE n - 1, panic |-> n = 0 /\ checks]

\* union that links x and y themselves, without looking up their roots
uf_union_nofind(p, sz, n, x, y, checks) ==
    IF x = y THEN [parent |-> p, size |-> sz, nsets |-> n, panic |-> FALSE]
    ELSE LET d == nsets_dec(n, checks)
         IN  IF At(sz, x) < At(sz, y)
             THEN [parent |-> Put(p, x, y), size |-> Put(sz, y, At(sz, y) + At(sz, x)),
                   nsets |-> d.n, panic |-> d.panic]
             ELSE [parent |-> Put(p, y, x), size |-> Put(sz, x, At(sz, x) + At(sz, y)),
                   nsets |-> d.n, panic |-> d.panic]

\* UnionFind::union on in-range x, y
uf_union(p, sz, n, x, y, checks) ==
    IF x = y THEN [parent |-> p, size |-> sz, nsets |-> n, panic |-> FALSE]
    ELSE LET x_root == find(p, x)
             y_root == find(p, y)
             d == nsets_dec(n, checks)
         IN  IF At(sz, x_root) < At(sz, y_root)
             THEN [parent |-> Put(p, x_root, y_root),
                   size |-> Put(sz, y_root, At(sz, y_root) + At(sz, x_root)),
                   nsets |-> d.n, panic |-> d.panic]
             ELSE [parent |-> Put(p, y_root, x_root),
                   size |-> Put(sz, x_root, At(sz, x_root) + At(sz, y_root)),
                   nsets |-> d.n, panic |-> d.panic]

\* history of the calls: the classes of the least equivalence containing (x, y)
Join(j, x, y) ==
    LET lo == IF At(j, x) < At(j, y) THEN At(j, x) ELSE At(j, y)
    IN  [i \in 1..Len(j) |-> IF j[i] = At(j, x) \/ j[i] = At(j, y) THEN lo ELSE j[i]]

\* a call of union(x, y) with x, y in range, under either build profile
Union(x, y) ==
    /\ ufret[1] # "panic"
    /\ ncalls < MaxUnions
    /\ \E checks \in BOOLEAN :
         LET u == uf_union(parent, size, nsets, x, y, checks)
         IN  /\ parent' = u.parent
             /\ size' = u.size
             /\ nsets' = u.nsets
             /\ ufret' = <<IF u.panic THEN "panic" ELSE "union", x, y>>
    /\ joined' = Join(joined, x, y)
    /\ ncalls' = ncalls + 1
    /\ UNCHANGED <<heapVars, sortVars, graphVars>>

\* --------------------------------------------------------- WeightedGraph
I32Max == 2147483647
I32Min == -I32Max - 1

\* a + b on i32: out of range a build with overflow checks panics, a build
\* without them wraps modulo 2^32
add_i32(a, b, checks) ==
    IF b > 0 /\ a > I32Max - b
    THEN [v |-> IF checks THEN a ELSE (a - I32Max - 1) + (b - I32Max - 1), panic |-> checks]
    ELSE IF b < 0 /\ a < I32Min - b
    THEN [v |-> IF checks THEN a ELSE (a + I32Max + 1) + (b + I32Max + 1), panic |-> checks]
    ELSE [v |-> a + b, panic |-> FALSE]

\* WeightedEdge::new, without the next link: the chain is the sequence
WeightedEdge(weight, points_to) == [weight |-> weight, points_to |-> points_to]

\* WeightedGraph::new
graph_new(vcapacity, dir) ==
    [edges |-> [i \in 1..vcapacity |-> <<>>], degrees |-> [i \in 1..vcapacity |-> 0],
     nedges |-> 0, nvert |-> 0, directed |-> dir]

\* insert_edge without the mirrored record of an undirected graph
insert_edge_nomirror(g, i, j, weight) ==
    [edges |-> Put(g.edges, i, <<WeightedEdge(weight, j)>> \o At(g.edges, i)),
     degrees |-> Put(g.degrees, i, At(g.degrees, i) + 1),
     nedges |-> g.nedges + 1, nvert |-> g.nvert + 1, directed |-> g.directed]

\* WeightedGraph::insert_edge past its assert
insert_edge(g, i, j, weight) ==
    LET e1 == Put(g.edges, i, <<WeightedEdge(weight, j)>> \o At(g.edges, i))
        e2 == IF ~g.directed
              THEN Put(e1, j, <<WeightedEdge(weight, i)>> \o At(e1, j))
              ELSE e1
    IN  [edges |-> e2, degrees |-> Put(g.degrees, i, At(g.degrees, i) + 1),
         nedges |-> g.nedges + 1, nvert |-> g.nvert + 1, directed |-> g.directed]

\* the assert of WeightedGraph::insert_edge
insert_edge_ok(g, i, j) == j < Len(g.edges) /\ i < Len(g.edges)

graph == [edges |-> edges, degrees |-> degrees, nedges |-> nedges, nvert |-> nvert,
          directed |-> directed]

\* the frontier scan of prims and dijkstras: the first vertex of least distance
\* among those not in the tree (Iterator::min_by_key keeps the first minimum), -1
\* when every vertex is in the tree
select_min(distance, intree) ==
    LET cand == {i \in 0..(Len(distance) - 1) : ~At(intree, i)}
    IN  IF cand = {} THEN -1
        ELSE CHOOSE i \in cand :
                 \A k \in cand : /\ At(distance, i) <= At(distance, k)
                                 /\ (At(distance, k) = At(distance, i) => i <= k)

\* the relaxation of dijkstras in prims: the distance through cur_vertex is compared
RECURSIVE prims_relax_sum(_, _, _, _, _)
prims_relax_sum(chain, k, cur_vertex, distance, par) ==
    IF k > Len(chain) THEN [distance |-> distance, parent |-> par]
    ELSE LET edge == chain[k]
             sum == add_i32(At(distance, cur_vertex), edge.weight, FALSE).v
         IN  IF At(distance, edge.points_to) > sum
             THEN prims_relax_sum(chain, k + 1, cur_vertex,
                                  Put(distance, edge.points_to, sum),
                                  Put(par, edge.points_to, Some(cur_vertex)))
             ELSE prims_relax_sum(chain, k + 1, cur_vertex, distance, par)

\* the relaxation loop of prims over the chain of cur_vertex, from record k on
RECURSIVE prims_relax(_, _, _, _, _)
prims_relax(chain, k, cur_vertex, distance, par) ==
    IF k > Len(chain) THEN [distance |-> distance, parent |-> par]
    ELSE LET edge == chain[k]
         IN  IF At(distance, edge.points_to) > edge.weight
             THEN prims_relax(chain, k + 1, cur_vertex,
                              Put(distance, edge.points_to, edge.weight),
                              Put(par, edge.points_to, Some(cur_vertex)))
             ELSE prims_relax(chain, k + 1, cur_vertex, distance, par)

\* the main loop of prims, entered with cur_vertex not in the tree
RECURSIVE prims_loop(_, _, _, _, _, _, _, _)
prims_loop(e, start, checks, cur_vertex, distance, intree, par, weight) ==
    LET intree1 == Put(intree, cur_vertex, TRUE)
        w == IF cur_vertex # start THEN add_i32(weight, At(distance, cur_vertex), checks)
             ELSE [v |-> weight, panic |-> FALSE]
        r == prims_relax(At(e, cur_vertex), 1, cur_vertex, distance, par)
        next == select_min(r.distance, intree1)
    IN  IF w.panic THEN [parents |-> par, total_weight |-> weight, panic |-> TRUE]
        ELSE IF next = -1 THEN [parents |-> r.parent, total_weight |-> w.v, panic |-> FALSE]
        ELSE prims_loop(e, start, checks, next, r.distance, intree1, r.parent, w.v)

\* WeightedGraph::prims
prims(e, start, checks) ==
    prims_loop(e, start, checks, start,
               Put([i \in 1..Len(e) |-> I32Max], start, 0),
               [i \in 1..Len(e) |-> FALSE],
               [i \in 1..Len(e) |-> None], 0)

\* ------------------------------------------------- Heap<EdgePair>, kruskals
\* EdgePair::new
EdgePair(source, points_to, weight) ==
    [source |-> source, points_to |-> points_to, weight |-> weight]

\* PartialOrd for EdgePair: gt and le compare the weights only
EdgePair_gt(x, y) == x.weight > y.weight
EdgePair_le(x, y) == x.weight <= y.weight

\* Heap::bubble at T = EdgePair
RECURSIVE bubble_ep(_, _)
bubble_ep(a, cur_idx) ==
    LET parent_idx == heap_parent(cur_idx)
    IN  IF parent_idx = -1 THEN a
        ELSE IF EdgePair_gt(At(a, parent_idx), At(a, cur_idx))
             THEN bubble_ep(Put(Put(a, parent_idx, At(a, cur_idx)), cur_idx, At(a, parent_idx)),
                            parent_idx)
             ELSE bubble_ep(a, parent_idx)

\* the while loop of Heap::heapify at T = EdgePair
RECURSIVE heapify_loop_ep(_, _)
heapify_loop_ep(a, cur_idx) ==
    LET child_idx == heap_child(a, cur_idx)
    IN  IF child_idx = -1 THEN [a |-> a, cur_idx |-> cur_idx]
        ELSE IF child_idx = Len(a) - 1
             THEN [a |-> Put(a, cur_idx, At(a, child_idx)), cur_idx |-> cur_idx]
        ELSE IF EdgePair_le(At(a, child_idx), At(a, child_idx + 1))
             THEN heapify_loop_ep(Put(a, cur_idx, At(a, child_idx)), child_idx)
             ELSE heapify_loop_ep(Put(a, cur_idx, At(a, child_idx + 1)), child_idx + 1)

\* Heap::heapify at T = EdgePair
heapify_ep(a) ==
    LET l == heapify_loop_ep(a, 0)
        b == Put(l.a, l.cur_idx, At(l.a, Len(l.a) - 1))
    IN  SubSeq(b, 1, Len(b) - 1)

\* Heap::insert at T = EdgePair
heap_insert_ep(a, value) == bubble_ep(Append(a, value), Len(a))

\* kruskals: the queue after the records of chain, from record k on, were inserted
RECURSIVE enqueue_chain(_, _, _, _)
enqueue_chain(queue, idx, chain, k) ==
    IF k > Len(chain) THEN queue
    ELSE enqueue_chain(heap_insert_ep(queue, EdgePair(idx, chain[k].points_to, chain[k].weight)),
                       idx, chain, k + 1)

\* kruskals: the queue after the chains of the vertices idx, idx + 1, ... were inserted
RECURSIVE enqueue_all(_, _, _)
enqueue_all(queue, e, idx) ==
    IF idx >= Len(e) THEN queue
    ELSE enqueue_all(enqueue_chain(queue, idx, At(e, idx), 1), e, idx + 1)

\* the pop loop of kruskals without its call of set.union
RECURSIVE kruskals_loop_nounion(_, _, _, _, _, _, _, _)
kruskals_loop_nounion(queue, p, sz, n, par, weight, checks, accepted) ==
    IF Len(queue) = 0
    THEN [parents |-> par, total_weight |-> weight, panic |-> FALSE, accepted |-> accepted]
    ELSE LET edge == At(queue, 0)
             rest == heapify_ep(queue)
         IN  IF edge.source >= Len(p) \/ edge.points_to >= Len(p)
             THEN [parents |-> par, total_weight |-> weight, panic |-> TRUE,
                   accepted |-> accepted]
             ELSE IF ~(find(p, edge.source) = find(p, edge.points_to))
             THEN LET w == add_i32(weight, edge.weight, checks)
                  IN  IF w.panic
                      THEN [parents |-> Put(par, edge.points_to, Some(edge.source)),
                            total_weight |-> weight, panic |-> TRUE,
                            accepted |-> Append(accepted, edge)]
                      ELSE kruskals_loop_nounion(rest, p, sz, n,
                                                 Put(par, edge.points_to, Some(edge.source)),
                                                 w.v, checks, Append(accepted, edge))
             ELSE kruskals_loop_nounion(rest, p, sz, n, par, weight, checks, accepted)

\* the pop loop of kruskals.  find panics on an index outside the disjoint set.
\* accepted is history: the records that passed the find test, in that order
RECURSIVE kruskals_loop(_, _, _, _, _, _, _, _)
kruskals_loop(queue, p, sz, n, par, weight, checks, accepted) ==
    IF Len(queue) = 0
    THEN [parents |-> par, total_weight |-> weight, panic |-> FALSE, accepted |-> accepted]
    ELSE LET edge == At(queue, 0)
             rest == heapify_ep(queue)
         IN  IF edge.source >= Len(p) \/ edge.points_to >= Len(p)
             THEN [parents |-> par, total_weight |-> weight, panic |-> TRUE,
                   accepted |-> accepted]
             ELSE IF ~(find(p, edge.source) = find(p, edge.points_to))
             THEN LET w == add_i32(weight, edge.weight, checks)
                      u == uf_union(p, sz, n, edge.source, edge.points_to, checks)
                  IN  IF w.panic \/ u.panic
                      THEN [parents |-> Put(par, edge.points_to, Some(edge.source)),
                            total_weight |-> weight, panic |-> TRUE,
                            accepted |-> Append(accepted, edge)]
                      ELSE kruskals_loop(rest, u.parent, u.size, u.nsets,
                                         Put(par, edge.points_to, Some(edge.source)),
                                         w.v, checks, Append(accepted, edge))
             ELSE kruskals_loop(rest, p, sz, n, par, weight, checks, accepted)

\* WeightedGraph::kruskals
kruskals(e, checks) ==
    LET queue == enqueue_all(<<>>, e, 0)
        set == uf_new(Len(queue))
    IN  kruskals_loop(queue, set.parent, set.size, set.nsets,
                      [i \in 1..Len(e) |-> None], 0, checks, <<>>)

\* ------------------------------------------------------------- dijkstras
\* the relaxation of prims in dijkstras: the edge weight alone is compared
RECURSIVE dijkstras_relax_edge(_, _, _, _, _, _)
dijkstras_relax_edge(chain, k, cur_vertex, distance, par, checks) ==
    IF k > Len(chain) THEN [distance |-> distance, parent |-> par, panic |-> FALSE]
    ELSE LET edge == chain[k]
         IN  IF ~(edge.weight > 0)
             THEN [distance |-> distance, parent |-> par, panic |-> TRUE]
             ELSE IF At(distance, edge.points_to) > edge.weight
             THEN dijkstras_relax_edge(chain, k + 1, cur_vertex,
                                       Put(distance, edge.points_to, edge.weight),
                                       Put(par, edge.points_to, Some(cur_vertex)), checks)
             ELSE dijkstras_relax_edge(chain, k + 1, cur_vertex, distance, par, checks)

\* the relaxation of dijkstras without its assert on the weight
RECURSIVE dijkstras_relax_noassert(_, _, _, _, _, _)
dijkstras_relax_noassert(chain, k, cur_vertex, distance, par, checks) ==
    IF k > Len(chain) THEN [distance |-> distance, parent |-> par, panic |-> FALSE]
    ELSE LET edge == chain[k]
             sum == add_i32(At(distance, cur_vertex), edge.weight, checks)
         IN  IF sum.panic
             THEN [distance |-> distance, parent |-> par, panic |-> TRUE]
             ELSE IF At(distance, edge.points_to) > sum.v
             THEN dijkstras_relax_noassert(chain, k + 1, cur_vertex,
                                           Put(distance, edge.points_to, sum.v),
                                           Put(par, edge.points_to, Some(cur_vertex)), checks)
             ELSE dijkstras_relax_noassert(chain, k + 1, cur_vertex, distance, par, checks)

\* the relaxation loop of dijkstras over the chain of cur_vertex, from record k on
RECURSIVE dijkstras_relax(_, _, _, _, _, _)
dijkstras_relax(chain, k, cur_vertex, distance, par, checks) ==
    IF k > Len(chain) THEN [distance |-> distance, parent |-> par, panic |-> FALSE]
    ELSE LET edge == chain[k]
             sum == add_i32(At(distance, cur_vertex), edge.weight, checks)
         IN  IF ~(edge.weight > 0) \/ sum.panic
             THEN [distance |-> distance, parent |-> par, panic |-> TRUE]
             ELSE IF At(distance, edge.points_to) > sum.v
             THEN dijkstras_relax(chain, k + 1, cur_vertex,
                                  Put(distance, edge.points_to, sum.v),
                                  Put(par, edge.points_to, Some(cur_vertex)), checks)
             ELSE dijkstras_relax(chain, k + 1, cur_vertex, distance, par, checks)

\* the main loop of dijkstras, entered with cur_vertex not in the tree
RECURSIVE dijkstras_loop(_, _, _, _, _, _, _)
dijkstras_loop(e, start, checks, cur_vertex, distance, intree, par) ==
    LET intree1 == Put(intree, cur_vertex, TRUE)
        r == dijkstras_relax(At(e, cur_vertex), 1, cur_vertex, distance, par, checks)
        next == select_min(r.distance, intree1)
    IN  IF r.panic
        THEN [start |-> start, parents |-> r.parent, distance |-> r.distance, panic |-> TRUE]
        ELSE IF next = -1
        THEN [start |-> start, parents |-> r.parent, distance |-> r.distance, panic |-> FALSE]
        ELSE dijkstras_loop(e, start, checks, next, r.distance, intree1, r.parent)

\* WeightedGraph::dijkstras
dijkstras(e, start, checks) ==
    dijkstras_loop(e, start, checks, start,
                   Put([i \in 1..Len(e) |-> I32Max], start, 0),
                   [i \in 1..Len(e) |-> FALSE],
                   [i \in 1..Len(e) |-> None])

\* the loop of path_to with path.push(adj_v) in place of path.insert(0, adj_v)
RECURSIVE path_to_walk_push(_, _, _, _, _)
path_to_walk_push(sp, end, cur_vertex, path, fuel) ==
    IF cur_vertex = None THEN [kind |-> "None", path |-> <<>>, weight |-> 0]
    ELSE LET adj_v == cur_vertex[1]
         IN  IF sp.start = adj_v
             THEN [kind |-> "Some", path |-> Append(path, adj_v), weight |-> At(sp.distance, end)]
             ELSE IF fuel = 0 THEN [kind |-> "diverges", path |-> <<>>, weight |-> 0]
             ELSE path_to_walk_push(sp, end, At(sp.parents, adj_v), Append(path, adj_v), fuel - 1)

\* the loop of ShortestPaths::path_to, given `fuel` turns
RECURSIVE path_to_walk(_, _, _, _, _)
path_to_walk(sp, end, cur_vertex, path, fuel) ==
    IF cur_vertex = None THEN [kind |-> "None", path |-> <<>>, weight |-> 0]
    ELSE LET adj_v == cur_vertex[1]
         IN  IF sp.start = adj_v
             THEN [kind |-> "Some", path |-> <<adj_v>> \o path, weight |-> At(sp.distance, end)]
             ELSE IF fuel = 0 THEN [kind |-> "diverges", path |-> <<>>, weight |-> 0]
             ELSE path_to_walk(sp, end, At(sp.parents, adj_v), <<adj_v>> \o path, fuel - 1)

\* ShortestPaths::path_to.  A walk over more than Len(parents) links has entered a
\* cycle of parents that misses start, where the loop never ends: kind "diverges"
path_to(sp, end) == path_to_walk(sp, end, At(sp.parents, end), <<end>>, Len(sp.parents))

\* -------------------------------------------------- actions on the graph
Weights == {1, MaxWeight}

\* the process is gone after a panic, and hangs in a loop that never ends
Halted == gret.halt

\* MinSpanTree and ShortestPaths borrow the graph and the algorithms only read it:
\* every call is made from the state in which the graph was built
Built == ~Halted /\ gret.op \in {"new", "insert_edge"}

\* insert_edge with its assert placed after the two counters
InsertEdge_late(i, j, weight) ==
    /\ ~gret.halt /\ gret.op \in {"new", "insert_edge"}
    /\ IF insert_edge_ok(graph, i, j)
       THEN LET g == insert_edge(graph, i, j, weight)
            IN  /\ edges' = g.edges
                /\ degrees' = g.degrees
                /\ nedges' = g.nedges
                /\ nvert' = g.nvert
                /\ gret' = [op |-> "insert_edge", i |-> i, j |-> j, weight |-> weight,
                             halt |-> FALSE]
       ELSE /\ nedges' = nedges + 1
            /\ nvert' = nvert + 1
            /\ gret' = [op |-> "insert_edge", i |-> i, j |-> j, weight |-> weight,
                         halt |-> TRUE]
            /\ UNCHANGED <<edges, degrees>>
    /\ UNCHANGED <<directed, heapVars, sortVars, ufVars>>

\* insert_edge(i, j, weight); i or j = Len(edges) is the out-of-range call
InsertEdge(i, j, weight) ==
    /\ Built
    /\ IF insert_edge_ok(graph, i, j)
       THEN LET g == insert_edge(graph, i, j, weight)
            IN  /\ edges' = g.edges
                /\ degrees' = g.degrees
                /\ nedges' = g.nedges
                /\ nvert' = g.nvert
                /\ gret' = [op |-> "insert_edge", i |-> i, j |-> j, weight |-> weight,
                             halt |-> FALSE]
       ELSE /\ gret' = [op |-> "insert_edge", i |-> i, j |-> j, weight |-> weight,
                         halt |-> TRUE]
            /\ UNCHANGED <<edges, degrees, nedges, nvert>>
    /\ UNCHANGED <<directed, heapVars, sortVars, ufVars>>

\* prims(start) with start in range, under either build profile
RunPrims(start) ==
    /\ Built
    /\ \E checks \in BOOLEAN :
         LET r == prims(edges, start, checks)
         IN  gret' = [op |-> "prims", start |-> start, mst |-> r, halt |-> r.panic]
    /\ UNCHANGED <<edges, degrees, nedges, nvert, directed, heapVars, sortVars, ufVars>>

\* kruskals(), under either build profile
RunKruskals ==
    /\ Built
    /\ \E checks \in BOOLEAN :
         LET r == kruskals(edges, checks)
         IN  gret' = [op |-> "kruskals", mst |-> r, halt |-> r.panic]
    /\ UNCHANGED <<edges, degrees, nedges, nvert, directed, heapVars, sortVars, ufVars>>

\* dijkstras(start) with start in range, under either build profile
RunDijkstras(start) ==
    /\ Built
    /\ \E checks \in BOOLEAN :
         LET r == dijkstras(edges, start, checks)
         IN  gret' = [op |-> "dijkstras", sp |-> r, halt |-> r.panic]
    /\ UNCHANGED <<edges, degrees, nedges, nvert, directed, heapVars, sortVars, ufVars>>

\* path_to(end), end in range, on the ShortestPaths the last call returned
PathTo(end) ==
    /\ ~Halted
    /\ gret.op = "dijkstras"
    /\ LET r == path_to(gret.sp, end)
       IN  gret' = [op |-> "path_to", sp |-> gret.sp, end |-> end, path |-> r,
                    halt |-> r.kind = "diverges"]
    /\ UNCHANGED <<edges, degrees, nedges, nvert, directed, heapVars, sortVars, ufVars>>

\* -------------------------------------------------------- specifications
HeapNew == heap = <<>> /\ hret = <<"new", None>> /\ held = [v \in Values |-> 0]
SortIdle(v) == vec = v /\ sin = v /\ out = <<>> /\ spc = "idle"
UFNew(n) ==
    /\ parent = uf_new(n).parent
    /\ size = uf_new(n).size
    /\ nsets = uf_new(n).nsets
    /\ ufret = <<"new", 0, 0>>
    /\ joined = [i \in 1..n |-> i - 1]
    /\ ncalls = 0
GraphNew(vcapacity, dir) ==
    /\ edges = graph_new(vcapacity, dir).edges
    /\ degrees = graph_new(vcapacity, dir).degrees
    /\ nedges = graph_new(vcapacity, dir).nedges
    /\ nvert = graph_new(vcapacity, dir).nvert
    /\ directed = dir
    /\ gret = [op |-> "new", halt |-> FALSE]

\* the heap under any sequence of insert, pop and peek
InitHeap == HeapNew /\ SortIdle(<<>>) /\ UFNew(UFSize) /\ GraphNew(NVert, FALSE)
NextHeap == (\E v \in Values : Insert(v)) \/ Pop \/ Peek
SpecHeap == InitHeap /\ [][NextHeap]_vars

\* HeapSorter::sort on any vector over Values of at most MaxSortLen elements
InitSort ==
    /\ HeapNew /\ UFNew(UFSize) /\ GraphNew(NVert, FALSE)
    /\ \E v \in SeqsUpTo(Values, MaxSortLen) : SortIdle(v)
NextSort == SortBegin \/ SortFill \/ SortDrain
SpecSort == InitSort /\ [][NextSort]_vars

\* UnionFind::new(UFSize) under any sequence of in-range union calls
InitUF == HeapNew /\ SortIdle(<<>>) /\ UFNew(UFSize) /\ GraphNew(NVert, FALSE)
NextUF == \E x, y \in 0..(UFSize - 1) : Union(x, y)
SpecUF == InitUF /\ [][NextUF]_vars

\* a graph of NVert vertices, directed or not, under any sequence of insert_edge
\* calls, with the three algorithms and path_to run at any point
InitGraph ==
    /\ HeapNew /\ SortIdle(<<>>) /\ UFNew(UFSize)
    /\ \E dir \in BOOLEAN : GraphNew(NVert, dir)
NextGraph ==
    \/ /\ nedges < MaxEdges
       /\ \E i, j \in 0..NVert, w \in Weights : InsertEdge(i, j, w)
    \/ \E s \in 0..(NVert - 1) : RunPrims(s)
    \/ RunKruskals
    \/ \E s \in 0..(NVert - 1) : RunDijkstras(s)
    \/ \E t \in 0..(NVert - 1) : PathTo(t)
SpecGraph == InitGraph /\ [][NextGraph]_vars

\* the undirected graphs over the edge list Topology, inserted in that order with
\* any weights in 1..MaxKWeight, with prims and kruskals run at any point
Topology == <<<<0, 4>>, <<3, 4>>, <<1, 0>>, <<2, 3>>, <<2, 1>>, <<0, 3>>>>
TopologyVertices == {Topology[k][1] : k \in 1..Len(Topology)} \cup
                    {Topology[k][2] : k \in 1..Len(Topology)}
InitMST ==
    /\ HeapNew /\ SortIdle(<<>>) /\ UFNew(UFSize)
    /\ GraphNew(Cardinality(TopologyVertices), FALSE)
NextMST ==
    \/ /\ nedges < Len(Topology)
       /\ \E w \in 1..MaxKWeight :
            InsertEdge(Topology[nedges + 1][1], Topology[nedges + 1][2], w)
    \/ \E s \in TopologyVertices : RunPrims(s)
    \/ RunKruskals
SpecMST == InitMST /\ [][NextMST]_vars

\* a graph of NVert vertices, directed or not, under at most MaxNegEdges in-range
\* insert_edge calls with weights that may be zero or negative, with dijkstras run
\* at any point
NegWeights == {-1, 0, 1}
InitNeg == InitGraph
NextNeg ==
    \/ /\ nedges < MaxNegEdges
       /\ \E i, j \in 0..(NVert - 1), w \in NegWeights : InsertEdge(i, j, w)
    \/ \E s \in 0..(NVert - 1) : RunDijkstras(s)
SpecNeg == InitNeg /\ [][NextNeg]_vars

\* =================================================================== claims
Elements == 0..(Len(parent) - 1)

\* the min-heap property of an array
HeapOrdered(a) ==
    \A i \in 0..(Len(a) - 1) :
        /\ (2 * i + 1 < Len(a) => At(a, i) <= At(a, 2 * i + 1))
        /\ (2 * i + 2 < Len(a) => At(a, i) <= At(a, 2 * i + 2))

NonDecreasing(a) == \A i \in 1..(Len(a) - 1) : a[i] <= a[i + 1]

\* C1: after any sequence of insert and pop calls from the empty heap, every
\* element of the backing array is <= its children at 2i+1 and 2i+2.
C1_HeapProperty == HeapOrdered(heap)

\* C2: the values HeapSorter::sort pops from the heap it filled come out in
\* non-decreasing order, there are as many of them as were inserted before pop
\* returns None, and the vector is left sorted ascending.
C2_PopsAscend ==
    /\ (spc \in {"drain", "done"} => NonDecreasing(out))
    /\ (spc = "done" => Len(vec) = Len(sin) /\ NonDecreasing(vec))

\* C7: size(x) is the number of elements whose representative is find(x), for
\* every element x, after any sequence of in-range union calls.
C7_SizeCountsSet ==
    \A x \in Elements :
        uf_size(parent, size, x) = Cardinality({e \in Elements : find(parent, e) = find(parent, x)})

\* C8: find(find(x)) = find(x) for every x; right after union(x, y) returns,
\* find(x) = find(y); elements that no chain of union calls connects have
\* different representatives.
C8_Representatives ==
    /\ \A x \in Elements : find(parent, find(parent, x)) = find(parent, x)
    /\ (ufret[1] = "union" => find(parent, ufret[2]) = find(parent, ufret[3]))
    /\ \A x, y \in Elements :
           At(joined, x) # At(joined, y) => find(parent, x) # find(parent, y)

\* C8 witness: a union of two sets of two elements each has just returned, while
\* an earlier state of the same run had unconnected elements (ncalls = 3)
C8_Witness ==
    /\ ufret[1] = "union" /\ ncalls = 3
    /\ \A x \in Elements : At(joined, x) = 0
    /\ \E x \in Elements : At(parent, At(parent, x)) # At(parent, x)

\* C9: from every element the parent links lead, in at most Len(parent) steps, to
\* a root r with parent[r] = r: the only cycles are the self-loops of the roots
\* and find terminates.
C9_FindTerminates ==
    \A x \in Elements :
        /\ find(parent, x) # -1
        /\ At(parent, find(parent, x)) = find(parent, x)

\* C9 witness: a chain of two links below a root, after unions that include a
\* repeated one on elements already in the same set
C9_Witness ==
    /\ \E x \in Elements : At(parent, At(parent, x)) # At(parent, x)
    /\ \E r \in Elements : At(size, r) > Len(parent)

\* ------------------------------------------------ reference definitions
Vertices == 0..(Len(edges) - 1)

\* the weights of the records u -> v
WeightsOf(u, v) == {At(edges, u)[k].weight : k \in {n \in 1..Len(At(edges, u)) : At(edges, u)[n].points_to = v}}

Least(S) == CHOOSE m \in S : \A n \in S : m <= n

RECURSIVE ReachFrom(_)
ReachFrom(S) ==
    LET T == S \cup {v \in Vertices : \E u \in S : WeightsOf(u, v) # {}}
    IN  IF T = S THEN S ELSE ReachFrom(T)

Connected == ReachFrom({0}) = Vertices

AllPositive == \A u \in Vertices : \A k \in 1..Len(At(edges, u)) : At(edges, u)[k].weight > 0

RECURSIVE Climbs(_, _, _)
Climbs(f, v, fuel) ==
    IF v = 0 THEN TRUE ELSE IF fuel = 0 THEN FALSE ELSE Climbs(f, f[v], fuel - 1)

RECURSIVE SumOver(_, _)
SumOver(f, S) ==
    IF S = {} THEN 0 ELSE LET x == CHOOSE x \in S : TRUE IN f[x] + SumOver(f, S \ {x})

\* the spanning trees, each as the function that sends a vertex other than 0 to
\* its neighbour on the way to 0
SpanningTrees ==
    {f \in [Vertices \ {0} -> Vertices] :
        \A v \in Vertices \ {0} : WeightsOf(f[v], v) # {} /\ Climbs(f, v, Len(edges))}

\* the least total weight of a spanning tree, by enumeration
MSTWeight ==
    Least({SumOver([v \in Vertices \ {0} |-> Least(WeightsOf(SpanningTrees_f[v], v))], Vertices \ {0}) :
             SpanningTrees_f \in SpanningTrees})

\* Bellman-Ford from s: -1 stands for no path
RECURSIVE PathCosts(_, _)
PathCosts(D, rounds) ==
    IF rounds = 0 THEN D
    ELSE PathCosts([v \in Vertices |->
                       LET ok == {D[u] + Least(WeightsOf(u, v)) :
                                     u \in {x \in Vertices : D[x] # -1 /\ WeightsOf(x, v) # {}}}
                                  \cup (IF D[v] # -1 THEN {D[v]} ELSE {})
                       IN  IF ok = {} THEN -1 ELSE Least(ok)],
                   rounds - 1)

ShortestCost(s, t) == PathCosts([v \in Vertices |-> IF v = s THEN 0 ELSE -1], Len(edges))[t]

\* C3: on a connected undirected graph kruskals().total_weight is the weight
\* of a minimum spanning tree, and so is prims(s).total_weight for every s.
C3_KruskalsMinimum ==
    (gret.op = "kruskals" /\ ~directed /\ Connected) =>
        /\ ~gret.mst.panic
        /\ gret.mst.total_weight = MSTWeight
        /\ \A s \in Vertices : prims(edges, s, TRUE).total_weight = gret.mst.total_weight

\* C4: on a connected undirected graph prims(s).total_weight is the weight of
\* a minimum spanning tree, whichever vertex s it starts from.
C4_PrimsMinimum ==
    (gret.op = "prims" /\ ~directed /\ Connected) =>
        /\ ~gret.mst.panic
        /\ gret.mst.total_weight = MSTWeight

\* C4 witness: prims has run from a vertex other than 0 on a connected undirected
\* graph with a cycle whose heaviest edge the minimum spanning tree leaves out
C4_Witness ==
    /\ gret.op = "prims" /\ ~directed /\ Connected
    /\ gret.start # 0
    /\ \A u, v \in Vertices : u # v => WeightsOf(u, v) # {}
    /\ gret.mst.total_weight = 2 /\ WeightsOf(gret.start, 0) = {MaxWeight}

\* C5: on a graph of positive weights, a path that dijkstras(s).path_to(t)
\* returns has the least total weight of all paths from s to t.
C5_PathIsShortest ==
    (gret.op = "path_to" /\ AllPositive /\ gret.path.kind = "Some") =>
        gret.path.weight = ShortestCost(gret.sp.start, gret.end)

\* C5 witness: a returned path of two edges that beats the direct edge
C5_Witness ==
    /\ gret.op = "path_to" /\ AllPositive /\ gret.path.kind = "Some"
    /\ Len(gret.path.path) = 3
    /\ WeightsOf(gret.sp.start, gret.end) = {MaxWeight}
    /\ gret.path.weight = 2

\* C6: on a graph of positive weights, dijkstras(s).path_to(t) returns None
\* exactly when t cannot be reached from s, t = s included.
C6_NoneIffUnreachable ==
    (gret.op = "path_to" /\ AllPositive) =>
        (gret.path.kind = "None" <=> ShortestCost(gret.sp.start, gret.end) = -1)

\* C10: for every vertex v the length of v's chain is degrees[v], and edges[v]
\* is None exactly when no record was placed in v's chain.
C10_ChainLengthIsDegree ==
    \A v \in Vertices :
        /\ Len(At(edges, v)) = At(degrees, v)
        /\ (At(edges, v) = None <=> Len(At(edges, v)) = 0)

\* --------------------------------------- reference definitions, by component
RECURSIVE ClimbsTo(_, _, _, _)
ClimbsTo(f, v, root, fuel) ==
    IF v = root THEN TRUE ELSE IF fuel = 0 THEN FALSE ELSE ClimbsTo(f, f[v], root, fuel - 1)

\* the spanning trees of the component of s, each as the function that sends a
\* vertex of the component other than s to its neighbour on the way to s
ComponentTrees(s) ==
    {f \in [ReachFrom({s}) \ {s} -> ReachFrom({s})] :
        \A v \in ReachFrom({s}) \ {s} :
            WeightsOf(f[v], v) # {} /\ ClimbsTo(f, v, s, Len(edges))}

\* the least total weight of a spanning tree of the component of s
ComponentMSTWeight(s) ==
    Least({SumOver([v \in ReachFrom({s}) \ {s} |-> Least(WeightsOf(ComponentTrees_f[v], v))],
                   ReachFrom({s}) \ {s}) :
             ComponentTrees_f \in ComponentTrees(s)})

\* C11: on an undirected graph that is not connected, prims(start) returns
\* without a panic, its total_weight is the weight of a minimum spanning tree of
\* the component of start, and every vertex outside that component has parent None.
C11_PrimsDisconnected ==
    (gret.op = "prims" /\ ~directed /\ ReachFrom({gret.start}) # Vertices) =>
        /\ ~gret.mst.panic
        /\ gret.mst.total_weight = ComponentMSTWeight(gret.start)
        /\ \A v \in Vertices \ ReachFrom({gret.start}) : At(gret.mst.parents, v) = None

\* C12: on a graph of positive weights dijkstras(start) returns without an
\* overflow of distance[v] + weight; on return every vertex that start cannot
\* reach has distance i32::MAX and parent None, and every vertex it can reach has
\* its shortest distance.
C12_UnreachableUntouched ==
    (gret.op = "dijkstras" /\ AllPositive) =>
        /\ ~gret.sp.panic
        /\ \A v \in Vertices :
              IF ShortestCost(gret.sp.start, v) = -1
              THEN At(gret.sp.distance, v) = I32Max /\ At(gret.sp.parents, v) = None
              ELSE At(gret.sp.distance, v) = ShortestCost(gret.sp.start, v)

\* C13: in kruskals every vertex index handed to find and union is smaller than
\* the size of the disjoint set, the number of queue entries: no call panics on an
\* index out of range.
C13_KruskalsInRange ==
    gret.op = "kruskals" =>
        /\ ~gret.mst.panic
        /\ \A k \in 1..Len(enqueue_all(<<>>, edges, 0)) :
              /\ enqueue_all(<<>>, edges, 0)[k].source < Len(enqueue_all(<<>>, edges, 0))
              /\ enqueue_all(<<>>, edges, 0)[k].points_to < Len(enqueue_all(<<>>, edges, 0))

\* C14: a call union(x, y) on elements that already have the same representative,
\* x = y or not, returns without a panic and leaves parent, size and nsets as
\* they were.
C14_UnionIdempotent ==
    [][(ncalls' = ncalls + 1 /\ find(parent, ufret'[2]) = find(parent, ufret'[3])) =>
           /\ ufret'[1] # "panic"
           /\ parent' = parent
           /\ size' = size
           /\ nsets' = nsets]_vars

\* C15: peek returns None on the empty heap and otherwise an element that is <=
\* every element of the heap, and leaves the heap as it was; pop returns what peek
\* would have returned.
C15_PeekIsMinimum ==
    [][/\ (hret'[1] = "peek" =>
              /\ heap' = heap
              /\ (heap = <<>> => hret'[2] = None)
              /\ (heap # <<>> => /\ hret'[2] # None
                                 /\ \A i \in 1..Len(heap) : hret'[2][1] <= heap[i]))
       /\ (hret'[1] = "pop" => hret'[2] = heap_peek(heap))]_vars

\* the weights of the records that point to v, from any vertex
WeightsInto(v) == UNION {WeightsOf(u, v) : u \in Vertices}

\* C16: on a graph with a record of weight <= 0, dijkstras(start) panics and
\* returns no ShortestPaths; when it panics no distance was lowered through such a
\* record: a vertex other than start that only records of weight <= 0 point to
\* still has distance i32::MAX and parent None.
C16_NonPositiveAborts ==
    (gret.op = "dijkstras" /\ ~AllPositive) =>
        /\ gret.halt /\ gret.sp.panic
        /\ \A v \in Vertices \ {gret.sp.start} :
              (\A w \in WeightsInto(v) : w <= 0) =>
                  At(gret.sp.distance, v) = I32Max /\ At(gret.sp.parents, v) = None

\* C16 witness: dijkstras lowered a distance through a record of positive weight
\* and then panicked at a record of weight <= 0 that leaves a vertex it reached
C16_Witness ==
    /\ gret.op = "dijkstras" /\ gret.halt
    /\ \E u \in Vertices \ {gret.sp.start} :
          /\ At(gret.sp.distance, u) = 1
          /\ \E k \in 1..Len(At(edges, u)) : At(edges, u)[k].weight <= 0
          /\ \A k \in 1..Len(At(edges, gret.sp.start)) : At(edges, gret.sp.start)[k].weight > 0

\* C17: a call insert_edge(i, j, weight) with i or j not below the number of
\* vertices panics and leaves edges, degrees, nedges and nvert as they were.
C17_OutOfRangeRejected ==
    [][(gret'.op = "insert_edge" /\ (gret'.i >= Len(edges) \/ gret'.j >= Len(edges))) =>
           /\ gret'.halt
           /\ UNCHANGED <<edges, degrees, nedges, nvert>>]_vars

\* C17 witness: on an undirected graph that has an edge, insert_edge was called
\* with i in range and j out of range, and panicked
C17_Witness ==
    /\ gret.op = "insert_edge" /\ gret.halt
    /\ ~directed /\ nedges > 0
    /\ gret.i < Len(edges) /\ gret.j >= Len(edges)

\* C18: on the empty heap pop and peek return None and leave the heap empty (len
\* 0, is_empty true),
\* however often and in whatever order they are called, and an insert that follows
\* is accepted: the heap then holds that one value.
C18_EmptyHeapBoundary ==
    [][heap = <<>> =>
           /\ (hret'[1] \in {"pop", "peek"} =>
                  hret'[2] = None /\ heap' = <<>> /\ heap_len(heap') = 0 /\ heap_is_empty(heap'))
           /\ (hret'[1] = "insert" => heap_len(heap') = 1 /\ heap_peek(heap') # None)]_vars

\* C18 witness: pop has returned None (the heap it was called on was empty)
C18_Witness == heap = <<>> /\ hret = <<"pop", None>>

\* ---------------------------------------------- reference: standard removal
Swap(a, i, j) == Put(Put(a, i, At(a, j)), j, At(a, i))

\* the index of the least among a[i] and its children
SmallestOf(a, i) ==
    LET l == 2 * i + 1
        r == 2 * i + 2
        m == IF l < Len(a) /\ At(a, l) < At(a, i) THEN l ELSE i
    IN  IF r < Len(a) /\ At(a, r) < At(a, m) THEN r ELSE m

RECURSIVE SiftDown(_, _)
SiftDown(a, i) ==
    IF SmallestOf(a, i) = i THEN a ELSE SiftDown(Swap(a, i, SmallestOf(a, i)), SmallestOf(a, i))

\* standard removal from a non-empty heap: the last element goes to the root and
\* is sifted down
StdRemove(a) ==
    IF Len(a) = 1 THEN <<>>
    ELSE SiftDown(SubSeq(Put(a, 0, At(a, Len(a) - 1)), 1, Len(a) - 1), 0)

Count(a, v) == Cardinality({i \in 1..Len(a) : a[i] = v})
SameElements(a, b) == Len(a) = Len(b) /\ \A i \in 1..Len(a) : Count(a, a[i]) = Count(b, a[i])

\* C19: a pop of a non-empty heap that satisfies the heap property leaves an
\* array that satisfies it and holds the same elements as standard removal does,
\* which also leaves the heap property.
C19_HoleDescentEquivalent ==
    [][(hret'[1] = "pop" /\ heap # <<>> /\ HeapOrdered(heap)) =>
           /\ HeapOrdered(StdRemove(heap))
           /\ HeapOrdered(heap')
           /\ SameElements(heap', StdRemove(heap))]_vars

\* following the parent links from v leads to root in at most fuel steps
RECURSIVE ParentClimbs(_, _, _, _)
ParentClimbs(par, v, root, fuel) ==
    IF v = root THEN TRUE
    ELSE IF fuel = 0 \/ At(par, v) = None THEN FALSE
    ELSE ParentClimbs(par, At(par, v)[1], root, fuel - 1)

\* C20: on a connected undirected graph the parents that prims(start) returns
\* are a spanning tree rooted at start: parent[start] is None, every other vertex
\* has a parent it shares an edge with, the parent links lead from every vertex to
\* start, and the weights of the edges (parent[v], v) add up to total_weight.
C20_PrimsParentsTree ==
    (gret.op = "prims" /\ ~directed /\ ReachFrom({gret.start}) = Vertices) =>
        /\ At(gret.mst.parents, gret.start) = None
        /\ \A v \in Vertices \ {gret.start} :
              /\ At(gret.mst.parents, v) # None
              /\ WeightsOf(At(gret.mst.parents, v)[1], v) # {}
        /\ \A v \in Vertices : ParentClimbs(gret.mst.parents, v, gret.start, Len(edges))
        /\ SumOver([v \in Vertices \ {gret.start} |->
                       Least(WeightsOf(At(gret.mst.parents, v)[1], v))],
                   Vertices \ {gret.start}) = gret.mst.total_weight

\* the vertices that have a parent
WithParent(par) == {v \in 0..(Len(par) - 1) : At(par, v) # None}

\* the vertices joined to the vertices of S by the edges {parent[v], v}
RECURSIVE TreeReach(_, _)
TreeReach(par, S) ==
    LET T == S \cup {At(par, v)[1] : v \in S \cap WithParent(par)}
                \cup {v \in WithParent(par) : At(par, v)[1] \in S}
    IN  IF T = S THEN S ELSE TreeReach(par, T)

\* C21: on a connected undirected graph of V vertices the parents that kruskals
\* returns record every accepted edge: V - 1 vertices have a parent, the pairs
\* (parent[v], v) are the accepted edges, they join all vertices (V - 1 edges
\* that connect V vertices: an acyclic spanning tree), and their weights add up
\* to total_weight.
C21_KruskalsParentsTree ==
    (gret.op = "kruskals" /\ ~directed /\ Connected) =>
        /\ ~gret.mst.panic
        /\ Cardinality(WithParent(gret.mst.parents)) = Len(edges) - 1
        /\ {<<At(gret.mst.parents, v)[1], v>> : v \in WithParent(gret.mst.parents)} =
              {<<gret.mst.accepted[k].source, gret.mst.accepted[k].points_to>> :
                  k \in 1..Len(gret.mst.accepted)}
        /\ TreeReach(gret.mst.parents, {0}) = Vertices
        /\ SumOver([v \in WithParent(gret.mst.parents) |->
                       Least(WeightsOf(At(gret.mst.parents, v)[1], v))],
                   WithParent(gret.mst.parents)) = gret.mst.total_weight

\* the sum of the least weights of the records p[k] -> p[k + 1], from k on
RECURSIVE PathWeight(_, _)
PathWeight(p, k) ==
    IF k >= Len(p) THEN 0 ELSE Least(WeightsOf(p[k], p[k + 1])) + PathWeight(p, k + 1)

\* C22: on a graph of positive weights, a path that dijkstras(start).path_to(end)
\* returns begins with start, ends with end, visits no vertex twice, steps along
\* records of the graph only, and its weight is distance[end] and the sum of the
\* least weights along its steps.
C22_PathIsWalk ==
    (gret.op = "path_to" /\ AllPositive /\ gret.path.kind = "Some") =>
        /\ gret.path.path[1] = gret.sp.start
        /\ gret.path.path[Len(gret.path.path)] = gret.end
        /\ \A a, b \in 1..Len(gret.path.path) : a # b => gret.path.path[a] # gret.path.path[b]
        /\ \A k \in 1..(Len(gret.path.path) - 1) :
              WeightsOf(gret.path.path[k], gret.path.path[k + 1]) # {}
        /\ gret.path.weight = At(gret.sp.distance, gret.end)
        /\ gret.path.weight = PathWeight(gret.path.path, 1)

\* C22 witness: a returned path of two steps, the first along the lighter of two
\* parallel records
C22_Witness ==
    /\ gret.op = "path_to" /\ AllPositive /\ gret.path.kind = "Some"
    /\ Len(gret.path.path) = 3
    /\ WeightsOf(gret.path.path[1], gret.path.path[2]) = {1, MaxWeight}
    /\ gret.path.weight = 1 + MaxWeight

\* how many records u -> v of weight w the chains e hold
Multiplicity(e, u, v, w) ==
    Cardinality({k \in 1..Len(At(e, u)) : At(e, u)[k] = WeightedEdge(w, v)})

\* in an undirected graph the records u -> v and v -> u of a weight are as many
Mirrored(e) ==
    \A u, v \in 0..(Len(e) - 1) :
        \A w \in {At(e, u)[k].weight : k \in 1..Len(At(e, u))} :
            Multiplicity(e, u, v, w) = Multiplicity(e, v, u, w)

\* C23: a successful insert_edge(i, j, w) puts the record (w, j) at the head
\* of i's chain with the previous chain as its tail; on an undirected graph it
\* also puts (w, i) at the head of j's chain, on a directed graph the chain of
\* j # i is unchanged; the other chains are unchanged and nedges and nvert grow by 1; in
\* an undirected graph the records i -> j and j -> i of a weight are as many.
C23_InsertFrame ==
    [][(gret'.op = "insert_edge" /\ ~gret'.halt) =>
           /\ At(edges', gret'.i) = <<WeightedEdge(gret'.weight, gret'.j)>> \o At(edges, gret'.i)
           /\ (~directed => At(edges', gret'.j)[1] = WeightedEdge(gret'.weight, gret'.i))
           /\ ((directed /\ gret'.j # gret'.i) => At(edges', gret'.j) = At(edges, gret'.j))
           /\ \A v \in Vertices \ {gret'.i, gret'.j} : At(edges', v) = At(edges, v)
           /\ nedges' = nedges + 1 /\ nvert' = nvert + 1
           /\ (~directed => Mirrored(edges'))]_vars

\* C23 as amended: as above, except that a self-loop insert_edge(i, i, w) on an
\* undirected graph puts two records (w, i) ahead of i's previous chain (on a
\* directed graph one, as for any other edge).
C23_InsertFrameAmended ==
    [][(gret'.op = "insert_edge" /\ ~gret'.halt) =>
           /\ IF gret'.i # gret'.j
              THEN /\ At(edges', gret'.i) =
                         <<WeightedEdge(gret'.weight, gret'.j)>> \o At(edges, gret'.i)
                   /\ At(edges', gret'.j) =
                         IF directed THEN At(edges, gret'.j)
                         ELSE <<WeightedEdge(gret'.weight, gret'.i)>> \o At(edges, gret'.j)
              ELSE At(edges', gret'.i) =
                         IF directed
                         THEN <<WeightedEdge(gret'.weight, gret'.i)>> \o At(edges, gret'.i)
                         ELSE <<WeightedEdge(gret'.weight, gret'.i),
                                WeightedEdge(gret'.weight, gret'.i)>> \o At(edges, gret'.i)
           /\ \A v \in Vertices \ {gret'.i, gret'.j} : At(edges', v) = At(edges, v)
           /\ nedges' = nedges + 1 /\ nvert' = nvert + 1
           /\ (~directed => Mirrored(edges'))]_vars

\* C23 witness: a self-loop was inserted on an undirected graph at a vertex that
\* already had a record to another vertex
C23_Witness ==
    /\ gret.op = "insert_edge" /\ ~gret.halt /\ ~directed
    /\ gret.i = gret.j
    /\ Len(At(edges, gret.i)) = 3
    /\ At(edges, gret.i)[3].points_to # gret.i

\* the elements whose representative is r, and the roots
SetOf(p, r) == {e \in 0..(Len(p) - 1) : find(p, e) = r}
Roots(p) == {r \in 0..(Len(p) - 1) : At(p, r) = r}

\* the root that a union of the sets of x and y keeps, and the one it attaches:
\* the root of the smaller set goes under the root of the larger, y's on a tie
Loser(p, x, y) ==
    IF Cardinality(SetOf(p, find(p, x))) < Cardinality(SetOf(p, find(p, y)))
    THEN find(p, x) ELSE find(p, y)
Survivor(p, x, y) == IF Loser(p, x, y) = find(p, x) THEN find(p, y) ELSE find(p, x)

\* C24: a call union(x, y) on elements of two different sets returns without
\* a panic, makes the root of the smaller set a child of the root of the larger
\* (y's root under x's on equal sizes), sets the size of the surviving root to the
\* number of elements of both sets, lowers nsets by 1 and changes no other entry
\* of parent or size; nsets is then the number of roots.
C24_UnionMerges ==
    [][(ncalls' = ncalls + 1 /\ find(parent, ufret'[2]) # find(parent, ufret'[3])) =>
           /\ ufret'[1] # "panic"
           /\ parent' = Put(parent, Loser(parent, ufret'[2], ufret'[3]),
                            Survivor(parent, ufret'[2], ufret'[3]))
           /\ size' = Put(size, Survivor(parent, ufret'[2], ufret'[3]),
                          Cardinality(SetOf(parent, find(parent, ufret'[2])))
                          + Cardinality(SetOf(parent, find(parent, ufret'[3]))))
           /\ nsets' = nsets - 1
           /\ nsets' = Cardinality(Roots(parent'))]_vars

\* how many entries source -> points_to of weight w the queue q holds
QueueCount(q, source, points_to, w) ==
    Cardinality({k \in 1..Len(q) : q[k] = EdgePair(source, points_to, w)})

RECURSIVE SumWeights(_, _)
SumWeights(a, k) == IF k > Len(a) THEN 0 ELSE a[k].weight + SumWeights(a, k + 1)

\* C25: in kruskals on an undirected graph every edge is enqueued twice (the
\* queue holds the records of the chains, two for each insert_edge, u -> v as
\* often as v -> u); of the records between two vertices at most one is
\* accepted, whatever order the queue pops them in; no self-loop is accepted; and
\* total_weight is the sum of the weights of the accepted records, each once.
C25_SecondRecordRejected ==
    (gret.op = "kruskals" /\ ~directed) =>
        /\ Len(enqueue_all(<<>>, edges, 0)) = 2 * nedges
        /\ \A u, v \in Vertices : \A w \in WeightsOf(u, v) :
              /\ QueueCount(enqueue_all(<<>>, edges, 0), u, v, w) = Multiplicity(edges, u, v, w)
              /\ QueueCount(enqueue_all(<<>>, edges, 0), u, v, w) =
                    QueueCount(enqueue_all(<<>>, edges, 0), v, u, w)
        /\ \A a, b \in 1..Len(gret.mst.accepted) :
              a # b => {gret.mst.accepted[a].source, gret.mst.accepted[a].points_to} #
                       {gret.mst.accepted[b].source, gret.mst.accepted[b].points_to}
        /\ \A a \in 1..Len(gret.mst.accepted) :
              gret.mst.accepted[a].source # gret.mst.accepted[a].points_to
        /\ gret.mst.total_weight = SumWeights(gret.mst.accepted, 1)

\* C25 witness: kruskals returned after accepting two records on an undirected
\* graph that has a self-loop
C25_Witness ==
    /\ gret.op = "kruskals" /\ ~directed /\ ~gret.mst.panic
    /\ Len(gret.mst.accepted) = 2
    /\ \E v \in Vertices : WeightsOf(v, v) # {}

\* C26: the heap holds every value as often as it was inserted minus as often
\* as pop returned it, and its length is the number of inserts minus the number
\* of pops that returned a value: insert adds one occurrence of its argument, a
\* pop that returns r removes one occurrence of r, and nothing else changes.
C26_ElementsConserved ==
    /\ \A v \in Values : Count(heap, v) = held[v]
    /\ \A i \in 1..Len(heap) : heap[i] \in Values
    /\ heap_len(heap) = SumOver(held, Values)

\* C26 witness: pop has returned a value and left five elements of two or more
\* values in an array that the heap property no longer holds of
C26_Witness ==
    /\ hret[1] = "pop" /\ hret[2] # None
    /\ heap_len(heap) = 5
    /\ ~HeapOrdered(heap)

====
